---- MODULE Spec2Model ----
(***************************************************************************)
(* Model of src/src/App.tsx: the calculator's evaluateExpression (sanitize,*)
(* the operator-run guard, the evaluation of the filtered text as the body *)
(* of a strict-mode function, the finiteness check), the self-check runner *)
(* and the React component's state and handlers.                           *)
(*                                                                         *)
(* Strings are sequences of one-character strings.  Numbers are exact      *)
(* rationals with IEEE-754's signed zero, signed infinity and NaN; the     *)
(* rounding error of doubles (below 1e-9 on the bounded inputs) is not     *)
(* modelled.                                                               *)
(***************************************************************************)
EXTENDS Integers, Sequences, FiniteSets, TLC

VARIABLES expr, error, lastResult, testResults, last, input, outcome

vars == <<expr, error, lastResult, testResults, last, input, outcome>>

uiVars == <<expr, error, lastResult, testResults, last>>

evVars == <<input, outcome>>

(***************************************************************************)
(* Characters                                                              *)
(***************************************************************************)
Digits == {"0", "1", "2", "3", "4", "5", "6", "7", "8", "9"}

Operators == {"+", "-", "*", "/"}

\* The line terminators among the characters \s matches.
LineTerminators == {"\n"}

\* The characters \s matches: white space and line terminators.
WhiteSpace == {" ", "\n"}

DigitVal(c) ==
  CASE c = "0" -> 0 [] c = "1" -> 1 [] c = "2" -> 2 [] c = "3" -> 3 [] c = "4" -> 4
    [] c = "5" -> 5 [] c = "6" -> 6 [] c = "7" -> 7 [] c = "8" -> 8 [] c = "9" -> 9

DigitChar(n) ==
  CASE n = 0 -> "0" [] n = 1 -> "1" [] n = 2 -> "2" [] n = 3 -> "3" [] n = 4 -> "4"
    [] n = 5 -> "5" [] n = 6 -> "6" [] n = 7 -> "7" [] n = 8 -> "8" [] n = 9 -> "9"

\* s[i], or "EOF" past the end of s.
At(s, i) == IF i >= 1 /\ i <= Len(s) THEN s[i] ELSE "EOF"

(***************************************************************************)
(* sanitize and the guards of evaluateExpression                           *)
(***************************************************************************)
\* The complement of the class [^0-9+\-*/().\s].
Whitelisted(c) == c \in Digits \cup Operators \cup {"(", ")", "."} \cup WhiteSpace

\* A replace without the g flag: only the first match goes.
sanitizeFirstOnly(e) ==
  IF \A i \in 1..Len(e) : Whitelisted(e[i]) THEN e
  ELSE LET i == CHOOSE i \in 1..Len(e) :
                  ~Whitelisted(e[i]) /\ \A j \in 1..(i - 1) : Whitelisted(e[j])
       IN  SubSeq(e, 1, i - 1) \o SubSeq(e, i + 1, Len(e))

sanitize(e) == SelectSeq(e, Whitelisted)

\* s.trim(): s without the white space at its two ends.
RECURSIVE trimStart(_)
trimStart(s) == IF s # <<>> /\ Head(s) \in WhiteSpace THEN trimStart(Tail(s)) ELSE s

RECURSIVE trimEnd(_)
trimEnd(s) ==
  IF s # <<>> /\ s[Len(s)] \in WhiteSpace THEN trimEnd(SubSeq(s, 1, Len(s) - 1)) ELSE s

trim(s) == trimEnd(trimStart(s))

\* The pattern without its lookahead: every run of two operators matches.
forbiddenNoLookahead(s) ==
  \E i \in 1..Len(s) : At(s, i) \in Operators /\ At(s, i + 1) \in Operators

\* /[+\-*/]{2,}(?!\()/.test(s): some start i and some repetition count n >= 2
\* (the quantifier backtracks over every count) with the lookahead holding.
forbidden(s) ==
  \E i \in 1..Len(s) : \E n \in 2..Len(s) :
    /\ i + n - 1 <= Len(s)
    /\ \A j \in i..(i + n - 1) : s[j] \in Operators
    /\ At(s, i + n) # "("

(***************************************************************************)
(* Numbers                                                                 *)
(***************************************************************************)
RECURSIVE GCD(_, _)
GCD(a, b) == IF b = 0 THEN a ELSE GCD(b, a % b)

RECURSIVE Pow10(_)
Pow10(k) == IF k = 0 THEN 1 ELSE 10 * Pow10(k - 1)

RECURSIVE IntPow(_, _)
IntPow(b, k) == IF k = 0 THEN 1 ELSE b * IntPow(b, k - 1)

\* A finite number sg * n / d in lowest terms; n = 0 keeps its sign (-0).
Fin(sg, n, d) ==
  LET g == GCD(n, d) IN [k |-> "fin", sg |-> sg, n |-> n \div g, d |-> d \div g]

Inf(sg) == [k |-> "inf", sg |-> sg, n |-> 0, d |-> 1]

NaN == [k |-> "nan", sg |-> 1, n |-> 0, d |-> 1]

\* A value that is not a number: a RegExp object, or the string it concatenates to.
Obj == [k |-> "obj", sg |-> 1, n |-> 0, d |-> 1]

\* A finite number the rationals do not hold (a fractional power).
Real == [k |-> "real", sg |-> 1, n |-> 0, d |-> 1]

\* The completion of an evaluation that threw (calling a value that is no function).
Throw == [k |-> "throw", sg |-> 1, n |-> 0, d |-> 1]

IntVal(n) == IF n < 0 THEN Fin(-1, -n, 1) ELSE Fin(1, n, 1)

IsZero(v) == v.k = "fin" /\ v.n = 0

IsInteger(v) == v.k = "fin" /\ v.d = 1

\* ToNumber of an operand: an object or a string that is no numeral is NaN.
ToNumber(v) == IF v.k = "obj" THEN NaN ELSE v

Neg(v) ==
  CASE v.k = "throw" -> Throw
    [] v.k = "obj" -> NaN
    [] v.k \in {"nan", "real"} -> v
    [] OTHER -> [v EXCEPT !.sg = -v.sg]

Plus(v) == IF v.k = "throw" THEN Throw ELSE ToNumber(v)

AddNum(a, b) ==
  CASE a.k = "nan" \/ b.k = "nan" -> NaN
    [] a.k = "inf" /\ b.k = "inf" -> IF a.sg = b.sg THEN a ELSE NaN
    [] a.k = "inf" -> a
    [] b.k = "inf" -> b
    [] a.k = "real" \/ b.k = "real" -> Real
    [] OTHER ->
         LET num == a.sg * a.n * b.d + b.sg * b.n * a.d
             den == a.d * b.d
         IN  IF num = 0
               THEN Fin(IF a.sg = -1 /\ b.sg = -1 THEN -1 ELSE 1, 0, 1)
               ELSE IF num < 0 THEN Fin(-1, -num, den) ELSE Fin(1, num, den)

\* a + b: string concatenation when an operand is an object or a string.
Add(a, b) ==
  CASE a.k = "throw" \/ b.k = "throw" -> Throw
    [] a.k = "obj" \/ b.k = "obj" -> Obj
    [] OTHER -> AddNum(a, b)

Sub(a, b) ==
  IF a.k = "throw" \/ b.k = "throw" THEN Throw
  ELSE AddNum(ToNumber(a), Neg(ToNumber(b)))

MulNum(a, b) ==
  CASE a.k = "nan" \/ b.k = "nan" -> NaN
    [] a.k = "inf" \/ b.k = "inf" ->
         IF IsZero(a) \/ IsZero(b) THEN NaN ELSE Inf(a.sg * b.sg)
    [] IsZero(a) \/ IsZero(b) -> Fin(a.sg * b.sg, 0, 1)
    [] a.k = "real" \/ b.k = "real" -> Real
    [] OTHER -> Fin(a.sg * b.sg, a.n * b.n, a.d * b.d)

Mul(a, b) ==
  IF a.k = "throw" \/ b.k = "throw" THEN Throw
  ELSE MulNum(ToNumber(a), ToNumber(b))

DivNum(a, b) ==
  CASE a.k = "nan" \/ b.k = "nan" -> NaN
    [] a.k = "inf" -> IF b.k = "inf" THEN NaN ELSE Inf(a.sg * b.sg)
    [] b.k = "inf" -> Fin(a.sg * b.sg, 0, 1)
    [] IsZero(b) -> IF IsZero(a) THEN NaN ELSE Inf(a.sg * b.sg)
    [] IsZero(a) -> Fin(a.sg * b.sg, 0, 1)
    [] a.k = "real" \/ b.k = "real" -> Real
    [] OTHER -> Fin(a.sg * b.sg, a.n * b.d, a.d * b.n)

Div(a, b) ==
  IF a.k = "throw" \/ b.k = "throw" THEN Throw
  ELSE DivNum(ToNumber(a), ToNumber(b))

IsOddInteger(v) == IsInteger(v) /\ v.n % 2 = 1

\* Number::exponentiate(a, b).
PowNum(a, b) ==
  CASE b.k = "nan" -> NaN
    [] IsZero(b) -> IntVal(1)
    [] a.k = "nan" -> NaN
    [] a.k = "inf" ->
         IF b.sg = 1
           THEN Inf(IF a.sg = -1 /\ IsOddInteger(b) THEN -1 ELSE 1)
           ELSE Fin(IF a.sg = -1 /\ IsOddInteger(b) THEN -1 ELSE 1, 0, 1)
    [] IsZero(a) ->
         IF b.sg = 1
           THEN Fin(IF a.sg = -1 /\ IsOddInteger(b) THEN -1 ELSE 1, 0, 1)
           ELSE Inf(IF a.sg = -1 /\ IsOddInteger(b) THEN -1 ELSE 1)
    [] b.k = "inf" ->
         IF a.k = "real" THEN Real
         ELSE IF a.n = a.d THEN NaN
         ELSE IF (a.n > a.d) = (b.sg = 1) THEN Inf(1) ELSE Fin(1, 0, 1)
    [] a.k = "real" \/ b.k = "real" -> Real
    [] ~IsInteger(b) -> IF a.sg = -1 THEN NaN ELSE Real
    [] OTHER ->
         LET sg == IF a.sg = -1 /\ IsOddInteger(b) THEN -1 ELSE 1
         IN  IF b.sg = 1
               THEN Fin(sg, IntPow(a.n, b.n), IntPow(a.d, b.n))
               ELSE Fin(sg, IntPow(a.d, b.n), IntPow(a.n, b.n))

Exp(a, b) ==
  IF a.k = "throw" \/ b.k = "throw" THEN Throw
  ELSE PowNum(ToNumber(a), ToNumber(b))

\* The check without Number.isFinite.
IsNumber(v) == v.k \in {"fin", "real", "inf", "nan"}

\* typeof v === 'number' && Number.isFinite(v)
IsFiniteNumber(v) == v.k \in {"fin", "real"}

(***************************************************************************)
(* The text handed to Function: "'use strict'; return (" + cleaned + ");"  *)
(* parsed as a strict-mode function body and run.  The parser works on the *)
(* characters from the "(" after return on.                                *)
(***************************************************************************)
FunctionBody(cleaned) == <<"(">> \o cleaned \o <<")", ";">>

\* The index of the first line terminator at or after i (Len(s) + 1 if none):
\* where a // comment ends.
RECURSIVE EndOfLine(_, _)
EndOfLine(s, i) ==
  IF i > Len(s) \/ s[i] \in LineTerminators THEN i ELSE EndOfLine(s, i + 1)

\* The index after the first "*/" at or after i; 0 when the comment never closes.
RECURSIVE BlockEnd(_, _)
BlockEnd(s, i) ==
  IF i + 1 > Len(s) THEN 0
  ELSE IF s[i] = "*" /\ s[i + 1] = "/" THEN i + 2
  ELSE BlockEnd(s, i + 1)

\* Skips white space, line terminators and comments from i; nl records whether a
\* line terminator was passed (a block comment holding one counts as one).
RECURSIVE SkipFrom(_, _, _)
SkipFrom(s, i, nl) ==
  LET c == At(s, i) IN
  IF c \in LineTerminators THEN SkipFrom(s, i + 1, TRUE)
  ELSE IF c \in WhiteSpace THEN SkipFrom(s, i + 1, nl)
  ELSE IF c = "/" /\ At(s, i + 1) = "/" THEN SkipFrom(s, EndOfLine(s, i + 2), nl)
  ELSE IF c = "/" /\ At(s, i + 1) = "*" THEN
    LET e == BlockEnd(s, i + 2) IN
    IF e = 0 THEN [pos |-> i, nl |-> nl, ok |-> FALSE]
    ELSE SkipFrom(s, e, nl \/ \E j \in (i + 2)..(e - 1) : s[j] \in LineTerminators)
  ELSE [pos |-> i, nl |-> nl, ok |-> TRUE]

Skip(s, i) == SkipFrom(s, i, FALSE)

\* The index after the run of digits starting at i.
RECURSIVE DigitsEnd(_, _)
DigitsEnd(s, i) == IF At(s, i) \in Digits THEN DigitsEnd(s, i + 1) ELSE i

\* The value of the digits s[i..j-1] read as a decimal integer.
RECURSIVE DigitsValue(_, _, _)
DigitsValue(s, i, j) ==
  IF i >= j THEN 0 ELSE DigitsValue(s, i, j - 1) * 10 + DigitVal(s[j - 1])

\* A parse result: the index after the expression, its value when run, whether it is
\* a unary-operator expression, and whether running it divided by zero.
SyntaxError == [ok |-> FALSE, pos |-> 0, v |-> NaN, unary |-> FALSE, divByZero |-> FALSE]

Parsed(p, v, dz) == [ok |-> TRUE, pos |-> p, v |-> v, unary |-> FALSE, divByZero |-> dz]

\* NumericLiteral at i (s[i] is a digit or "."): DecimalIntegerLiteral with an
\* optional fraction, or "." DecimalDigits.  Strict mode code has no legacy octal
\* (0 followed by a digit).
NumericLiteral(s, i) ==
  LET intEnd  == DigitsEnd(s, i)
      hasDot  == At(s, intEnd) = "."
      fracEnd == IF hasDot THEN DigitsEnd(s, intEnd + 1) ELSE intEnd
      fracLen == IF hasDot THEN fracEnd - (intEnd + 1) ELSE 0
  IN  IF intEnd = i /\ fracLen = 0 THEN SyntaxError
      ELSE IF intEnd > i + 1 /\ s[i] = "0" THEN SyntaxError
      ELSE Parsed(fracEnd,
                  Fin(1, DigitsValue(s, i, intEnd) * Pow10(fracLen)
                           + DigitsValue(s, intEnd + 1, fracEnd),
                      Pow10(fracLen)),
                  FALSE)

\* The index of the "/" closing the regular expression body that starts at i; 0
\* when a line terminator or the end of the text comes first.
RECURSIVE RegexBodyEnd(_, _)
RegexBodyEnd(s, i) ==
  IF i > Len(s) \/ s[i] \in LineTerminators THEN 0
  ELSE IF s[i] = "/" THEN i
  ELSE RegexBodyEnd(s, i + 1)

\* Whether s[i..j-1] is a valid pattern: groups balance and each quantifier
\* (* or +) follows an atom.  depth counts open groups; atom says whether the
\* previous term can take a quantifier.
RECURSIVE PatternValid(_, _, _, _, _)
PatternValid(s, i, j, depth, atom) ==
  IF i >= j THEN depth = 0
  ELSE CASE s[i] = "(" -> PatternValid(s, i + 1, j, depth + 1, FALSE)
         [] s[i] = ")" -> depth > 0 /\ PatternValid(s, i + 1, j, depth - 1, TRUE)
         [] s[i] \in {"*", "+"} -> atom /\ PatternValid(s, i + 1, j, depth, FALSE)
         [] OTHER -> PatternValid(s, i + 1, j, depth, TRUE)

\* RegularExpressionLiteral at i (s[i] = "/", and s[i+1] is neither "/" nor "*",
\* which start comments).  A digit after the closing "/" is read as a flag, and
\* no digit is a flag.
RegexLiteral(s, i) ==
  LET e == RegexBodyEnd(s, i + 1) IN
  IF e = 0 THEN SyntaxError
  ELSE IF At(s, e + 1) \in Digits THEN SyntaxError
  ELSE IF ~PatternValid(s, i + 1, e, 0, FALSE) THEN SyntaxError
  ELSE Parsed(e + 1, Obj, FALSE)

\* The punctuator at i among the operator characters, by longest match.
Punctuator(s, i) ==
  LET c == At(s, i) IN
  IF c \in {"+", "-", "*"} /\ At(s, i + 1) = c THEN <<c, c>> ELSE <<c>>

\* The productions below call one another through Parse, which applies the
\* production named nt to the text s at x: an index, or for the Rest productions
\* the parse of the left operand.
RECURSIVE Parse(_, _, _)


\* NumericLiteral, RegularExpressionLiteral or a parenthesized expression.
PrimaryExpression(s, i) ==
  LET sk == Skip(s, i)
      c  == At(s, sk.pos)
  IN  IF ~sk.ok THEN SyntaxError
      ELSE IF c \in Digits \cup {"."} THEN NumericLiteral(s, sk.pos)
      ELSE IF c = "/" THEN RegexLiteral(s, sk.pos)
      ELSE IF c = "(" THEN
        LET e  == Parse("AdditiveExpression", s, sk.pos + 1)
            cl == Skip(s, e.pos)
        IN  IF e.ok /\ cl.ok /\ At(s, cl.pos) = ")"
              THEN Parsed(cl.pos + 1, e.v, e.divByZero)
              ELSE SyntaxError
      ELSE SyntaxError

\* Arguments after the expression r: "(" ")" or "(" Expression ")".  No value of
\* the model is callable, so the call throws a TypeError when it runs.
CallRest(s, r) ==
  LET sk == Skip(s, r.pos) IN
  IF ~sk.ok THEN SyntaxError
  ELSE IF At(s, sk.pos) # "(" THEN r
  ELSE
    LET op == Skip(s, sk.pos + 1) IN
    IF ~op.ok THEN SyntaxError
    ELSE IF At(s, op.pos) = ")" THEN Parse("CallRest", s, Parsed(op.pos + 1, Throw, r.divByZero))
    ELSE
      LET a  == Parse("AdditiveExpression", s, op.pos)
          cl == Skip(s, a.pos)
      IN  IF a.ok /\ cl.ok /\ At(s, cl.pos) = ")"
            THEN Parse("CallRest", s, Parsed(cl.pos + 1, Throw, r.divByZero \/ a.divByZero))
            ELSE SyntaxError

CallExpression(s, i) ==
  LET p == Parse("PrimaryExpression", s, i) IN
  IF p.ok THEN Parse("CallRest", s, p) ELSE SyntaxError

\* + and - as prefix operators.  ++ and -- have no valid target among the
\* expressions of these characters: an early error.
UnaryExpression(s, i) ==
  LET sk == Skip(s, i)
      t  == Punctuator(s, sk.pos)
  IN  IF ~sk.ok THEN SyntaxError
      ELSE IF t \in {<<"+">>, <<"-">>} THEN
        LET u == Parse("UnaryExpression", s, sk.pos + 1) IN
        IF ~u.ok THEN SyntaxError
        ELSE [ok |-> TRUE, pos |-> u.pos, unary |-> TRUE, divByZero |-> u.divByZero,
              v |-> IF t = <<"-">> THEN Neg(u.v) ELSE Plus(u.v)]
      ELSE IF t \in {<<"+", "+">>, <<"-", "-">>} THEN SyntaxError
      ELSE Parse("CallExpression", s, sk.pos)

\* UpdateExpression ** ExponentiationExpression, right-associative; a unary
\* expression is no left operand of **.
ExponentiationExpression(s, i) ==
  LET u  == Parse("UnaryExpression", s, i)
      sk == Skip(s, u.pos)
  IN  IF ~u.ok THEN SyntaxError
      ELSE IF ~sk.ok THEN SyntaxError
      ELSE IF Punctuator(s, sk.pos) = <<"*", "*">> THEN
        LET r == Parse("ExponentiationExpression", s, sk.pos + 2) IN
        IF u.unary \/ ~r.ok THEN SyntaxError
        ELSE Parsed(r.pos, Exp(u.v, r.v), u.divByZero \/ r.divByZero)
      ELSE u

MultiplicativeRest(s, l) ==
  LET sk == Skip(s, l.pos)
      t  == Punctuator(s, sk.pos)
  IN  IF ~sk.ok THEN SyntaxError
      ELSE IF t \in {<<"*">>, <<"/">>} THEN
        LET r == Parse("ExponentiationExpression", s, sk.pos + 1) IN
        IF ~r.ok THEN SyntaxError
        ELSE Parse("MultiplicativeRest", s,
               Parsed(r.pos, IF t = <<"*">> THEN Mul(l.v, r.v) ELSE Div(l.v, r.v),
                      \/ l.divByZero
                      \/ r.divByZero
                      \/ t = <<"/">> /\ IsZero(ToNumber(r.v))))
      ELSE l

MultiplicativeExpression(s, i) ==
  LET l == Parse("ExponentiationExpression", s, i) IN
  IF l.ok THEN Parse("MultiplicativeRest", s, l) ELSE SyntaxError

AdditiveRest(s, l) ==
  LET sk == Skip(s, l.pos)
      t  == Punctuator(s, sk.pos)
  IN  IF ~sk.ok THEN SyntaxError
      ELSE IF t \in {<<"+">>, <<"-">>} THEN
        LET r == Parse("MultiplicativeExpression", s, sk.pos + 1) IN
        IF ~r.ok THEN SyntaxError
        ELSE Parse("AdditiveRest", s,
               Parsed(r.pos, IF t = <<"+">> THEN Add(l.v, r.v) ELSE Sub(l.v, r.v),
                      l.divByZero \/ r.divByZero))
      ELSE l

AdditiveExpression(s, i) ==
  LET l == Parse("MultiplicativeExpression", s, i) IN
  IF l.ok THEN Parse("AdditiveRest", s, l) ELSE SyntaxError

Parse(nt, s, x) ==
  CASE nt = "PrimaryExpression" -> PrimaryExpression(s, x)
    [] nt = "CallRest" -> CallRest(s, x)
    [] nt = "CallExpression" -> CallExpression(s, x)
    [] nt = "UnaryExpression" -> UnaryExpression(s, x)
    [] nt = "ExponentiationExpression" -> ExponentiationExpression(s, x)
    [] nt = "MultiplicativeRest" -> MultiplicativeRest(s, x)
    [] nt = "MultiplicativeExpression" -> MultiplicativeExpression(s, x)
    [] nt = "AdditiveRest" -> AdditiveRest(s, x)
    [] nt = "AdditiveExpression" -> AdditiveExpression(s, x)

\* The statements after the return statement, from i: expression statements, each
\* ended by ";", by the end of the text, or by a line terminator before a token
\* that cannot continue it (automatic semicolon insertion).  They are parsed and
\* never run.
RECURSIVE StatementListValid(_, _)

\* Whether the expression parsed as e, followed by the skip tm, ends a statement
\* and valid statements follow it.
StatementEnd(s, e, tm) ==
  /\ e.ok
  /\ tm.ok
  /\ \/ tm.pos > Len(s)
     \/ /\ At(s, tm.pos) = ";" \/ tm.nl
        /\ StatementListValid(s, IF At(s, tm.pos) = ";" THEN tm.pos + 1 ELSE tm.pos)

ExpressionStatement(s, e) == StatementEnd(s, e, Skip(s, IF e.ok THEN e.pos ELSE 1))

StatementListFrom(s, sk) ==
  IF ~sk.ok THEN FALSE
  ELSE IF sk.pos > Len(s) THEN TRUE
  ELSE ExpressionStatement(s, Parse("AdditiveExpression", s, sk.pos))

StatementListValid(s, i) == StatementListFrom(s, Skip(s, i))

\* The completion of running a body whose return statement holds the expression
\* parsed as e: "SyntaxError" when the body does not parse, "TypeError" when
\* running the return statement throws, else the value returned.
Completion(body, e) ==
  IF ~ExpressionStatement(body, e)
    THEN [thrown |-> "SyntaxError", v |-> NaN, divByZero |-> FALSE]
  ELSE IF e.v.k = "throw" THEN [thrown |-> "TypeError", v |-> NaN, divByZero |-> FALSE]
  ELSE [thrown |-> "", v |-> e.v, divByZero |-> e.divByZero]

\* Function(body)()
RunFunction(body) == Completion(body, Parse("AdditiveExpression", body, 1))

(***************************************************************************)
(* evaluateExpression                                                      *)
(***************************************************************************)
Returned(v) == [kind |-> "value", value |-> v, message |-> ""]

Failed(msg) == [kind |-> "error", value |-> NaN, message |-> msg]

\* The try statement without its catch: what Function throws escapes.
tryFunctionUncaught(result) ==
  IF result.thrown # "" THEN Failed(result.thrown)
  ELSE IF ~IsFiniteNumber(result.v) THEN Failed("Computation error")
  ELSE Returned(result.v)

\* The try statement and the check of the result, for the completion result of
\* Function(...)().
tryFunction(result) ==
  IF result.thrown # "" THEN Failed("Invalid expression")
  ELSE IF ~IsFiniteNumber(result.v) THEN Failed("Computation error")
  ELSE Returned(result.v)

\* evaluateExpression without its catch.
evaluateExpressionUncaught(e) ==
  LET cleaned == sanitize(e) IN
  IF trim(cleaned) = <<>> THEN Failed("Empty expression")
  ELSE IF forbidden(cleaned) THEN Failed("Invalid operator sequence")
  ELSE tryFunctionUncaught(RunFunction(FunctionBody(cleaned)))

evaluateExpression(e) ==
  LET cleaned == sanitize(e) IN
  IF trim(cleaned) = <<>> THEN Failed("Empty expression")
  ELSE IF forbidden(cleaned) THEN Failed("Invalid operator sequence")
  ELSE tryFunction(RunFunction(FunctionBody(cleaned)))

(***************************************************************************)
(* Inputs of the evaluator                                                 *)
(***************************************************************************)
\* The longest input enumerated exhaustively.
MaxLen == 4

\* One or more characters of each class sanitize and the parser tell apart; "a"
\* stands for the characters sanitize removes.
Alphabet == {"0", "1", "2", "+", "-", "*", "/", "(", ")", ".", " ", "\n", "a"}

\* Longer inputs: the cases of the self-check table and of the specification's
\* examples, and texts that reach comments, **, calls, regular expressions and
\* divisions by zero inside a larger expression.
Corpus ==
  { <<"1", "/", "(", "1", "/", "0", ")">>,
    <<"(", "1", "/", "0", ")", "-", "(", "1", "/", "0", ")">>,
    <<"1", "/", "(", "0", "*", "(", "-", "1", ")", ")">>,
    <<"2", "*", "*", "(", "3", ")">>,
    <<"2", "*", "*", "(", "-", "1", ")">>,
    <<"-", "2", "*", "*", "(", "2", ")">>,
    <<"(", "1", "/", "0", ")", "*", "*", "(", "0", ")">>,
    <<"1", ")", "/", "/", "(">>,
    <<"1", ")", "\n", "2", "/", "/", "(">>,
    <<"1", ")", "\n", ")", "/", "/", "(">>,
    <<"1", "/", "/", "(", "\n", ")">>,
    <<"(", "/", "*", "(", "*", "/", "(", "3", ")", ")">>,
    <<"1", "/", "*", "(", "2", ")">>,
    <<"1", "/", "*", "(", "\n", "*", "/", "(", "2", ")">>,
    <<"(", "2", "+", "2", ")", "*", "2">>,
    <<"2", "+", "2", "*", "2">>,
    <<"2", "*", "2", "+", "2">>,
    <<"8", "-", "4", "-", "2">>,
    <<"8", "/", "4", "/", "2">>,
    <<"8", "/", "(", "4", "/", "2", ")">>,
    <<"1", "0", "/", "4", "*", "2">>,
    <<"5", "+", "(", "-", "3", ")">>,
    <<"5", "+", "-", "(", "3", ")">>,
    <<"5", "+", "-", "*", "(", "3", ")">>,
    <<"5", "+", "+", "(", "3", ")">>,
    <<"5", " ", "-", " ", "-", "3">>,
    <<"-", "5", "+", "2">>,
    <<"5", "+", "*", "3">>,
    <<"(", "2", "+", "3">>,
    <<"2", "+", "3", ")">>,
    <<"(", ")", "+", "1">>,
    <<"2", "(", "3", ")">>,
    <<"(", "2", ")", "(", "3", ")">>,
    <<"(", "1", "/", "0", ")", "(", "1", ")">>,
    <<"/", "1", "/", "+", "1">>,
    <<"/", "(", "1", ")", "+", "/", "-", "2">>,
    <<"/", "1", "/", "*", "*", "(", "0", ")">>,
    <<"1", "+", "2", "a", "a", "a">>,
    <<"a", "1", "a", "+", "a", "2">>,
    <<"a", " ", "a", "\n", "a", "a">>,
    <<"0", "0", "7", "+", "1">>,
    <<"1", "+", "0", "9">>,
    <<"0", ".", "5", "+", ".", "5">>,
    <<"1", ".", "5", "*", "2", ".">>,
    <<"1", ".", "2", ".", "3">>,
    <<" ", "1", " ", "+", "\n", "2", " ">>,
    <<"1", "2", "/", "3">> }

Inputs == UNION {[1..n -> Alphabet] : n \in 0..MaxLen} \cup Corpus

Pending == [kind |-> "pending", value |-> NaN, message |-> ""]

\* The handler that ran last, what it was given (calculate: the string it passed
\* to evaluateExpression; append: the string to add) and, for these two, the
\* expression the component held at that moment.
NoOp == [op |-> "", arg |-> <<>>, held |-> <<>>]

InitUI ==
  /\ expr = <<>> /\ error = "" /\ lastResult = <<>> /\ testResults = <<>>
  /\ last = NoOp

InitEval ==
  /\ InitUI
  /\ input \in Inputs
  /\ outcome = Pending

\* One call of evaluateExpression on the input.
Evaluate ==
  /\ outcome = Pending
  /\ outcome' = evaluateExpression(input)
  /\ UNCHANGED <<input, uiVars>>

NextEval == Evaluate

SpecEval == InitEval /\ [][NextEval]_vars

(***************************************************************************)
(* The component App: formatting, state and handlers                       *)
(***************************************************************************)
\* The significant digits toPrecision keeps.
Precision == 12

RECURSIVE IntDigits(_)
IntDigits(n) ==
  IF n < 10 THEN <<DigitChar(n)>> ELSE Append(IntDigits(n \div 10), DigitChar(n % 10))

RECURSIVE Zeros(_)
Zeros(k) == IF k <= 0 THEN <<>> ELSE <<"0">> \o Zeros(k - 1)

\* The decimal exponent e of n / d > 0: 10^e <= n / d < 10^(e + 1).
RECURSIVE ExponentUp(_, _, _)
ExponentUp(n, d, e) == IF n >= 10 * d THEN ExponentUp(n, 10 * d, e + 1) ELSE e

RECURSIVE ExponentDown(_, _, _)
ExponentDown(n, d, e) == IF n < d THEN ExponentDown(10 * n, d, e - 1) ELSE e

Exponent10(n, d) == IF n >= d THEN ExponentUp(n, d, 0) ELSE ExponentDown(n, d, 0)

\* The first k decimal digits of num / den (1 <= num / den < 10) and the
\* remainder left after them.
RECURSIVE SignificantDigits(_, _, _)
SignificantDigits(num, den, k) ==
  IF k = 0 THEN [ds |-> <<>>, rem |-> num]
  ELSE LET rest == SignificantDigits(10 * (num % den), den, k - 1) IN
       [ds |-> <<num \div den>> \o rest.ds, rem |-> IF k = 1 THEN num % den ELSE rest.rem]

\* ds plus one in the last place; carry is TRUE when every digit was 9.
RECURSIVE Increment(_)
Increment(ds) ==
  IF ds = <<>> THEN [ds |-> <<>>, carry |-> TRUE]
  ELSE LET n == Len(ds) IN
       IF ds[n] < 9 THEN [ds |-> [ds EXCEPT ![n] = ds[n] + 1], carry |-> FALSE]
       ELSE LET r == Increment(SubSeq(ds, 1, n - 1)) IN
            [ds |-> Append(r.ds, 0), carry |-> r.carry]

RECURSIVE StripZeros(_)
StripZeros(ds) ==
  IF Len(ds) > 1 /\ ds[Len(ds)] = 0 THEN StripZeros(SubSeq(ds, 1, Len(ds) - 1)) ELSE ds

DigitChars(ds) == [i \in 1..Len(ds) |-> DigitChar(ds[i])]

\* Number::toString of the positive number 0.d1d2...dk * 10^n.
NumberToString(ds, n) ==
  LET k == Len(ds)
      c == DigitChars(ds)
  IN  IF k <= n /\ n <= 21 THEN c \o Zeros(n - k)
      ELSE IF 0 < n /\ n <= 21 THEN SubSeq(c, 1, n) \o <<".">> \o SubSeq(c, n + 1, k)
      ELSE IF -6 < n /\ n <= 0 THEN <<"0", ".">> \o Zeros(-n) \o c
      ELSE <<c[1]>> \o (IF k > 1 THEN <<".">> \o SubSeq(c, 2, k) ELSE <<>>)
             \o <<"e", IF n - 1 < 0 THEN "-" ELSE "+">>
             \o IntDigits(IF n - 1 < 0 THEN 1 - n ELSE n - 1)

\* String(Number(value.toPrecision(12))): value rounded to 12 significant digits
\* (ties up), printed with the shortest digits.
RoundedString(v) ==
  LET e   == Exponent10(v.n, v.d)
      num == IF e < 0 THEN v.n * Pow10(-e) ELSE v.n
      den == IF e < 0 THEN v.d ELSE v.d * Pow10(e)
      sd  == SignificantDigits(num, den, Precision)
      up  == IF 2 * sd.rem >= den THEN Increment(sd.ds) ELSE [ds |-> sd.ds, carry |-> FALSE]
      ds  == IF up.carry THEN <<1>> ELSE StripZeros(up.ds)
      n   == IF up.carry THEN e + 2 ELSE e + 1
  IN  (IF v.sg = -1 THEN <<"-">> ELSE <<>>) \o NumberToString(ds, n)

\* Number.isInteger(value) ? String(value) : String(Number(value.toPrecision(12)))
formatted(v) ==
  IF v.k # "fin" THEN <<"r", "e", "a", "l">>
  ELSE IF IsInteger(v)
    THEN (IF v.sg = -1 /\ v.n # 0 THEN <<"-">> ELSE <<>>) \o IntDigits(v.n)
    ELSE RoundedString(v)

\* The longest expression append keeps.
ExprLimit == 64

Slice(s, n) == IF Len(s) <= n THEN s ELSE SubSeq(s, 1, n)

\* The append without its slice.
appendedUnbounded(prev, s) == prev \o s

\* (prev + s).slice(0, 64)
appended(prev, s) == Slice(prev \o s, ExprLimit)

\* prev.slice(0, -1)
withoutLast(prev) == IF prev = <<>> THEN <<>> ELSE SubSeq(prev, 1, Len(prev) - 1)

\* expr || lastResult || '0'
display == IF expr # <<>> THEN expr ELSE IF lastResult # <<>> THEN lastResult ELSE <<"0">>

\* Math.abs(a - b) <= eps, eps = 1e-9, for finite a and b.
EpsDenominator == 1000000000

\* The comparison turned around.
approxEqualInverted(a, b) ==
  LET diff == AddNum(a, Neg(b)) IN
  /\ diff.k = "fin"
  /\ diff.n > diff.d \div EpsDenominator

approxEqual(a, b) ==
  LET diff == AddNum(a, Neg(b)) IN
  /\ diff.k = "fin"
  /\ diff.n <= diff.d \div EpsDenominator

\* The table of runSelfCheck.
cases ==
  << [expr |-> <<"1", "+", "2">>, expected |-> IntVal(3)],
     [expr |-> <<"5", "-", "2">>, expected |-> IntVal(3)],
     [expr |-> <<"3", "*", "4">>, expected |-> IntVal(12)],
     [expr |-> <<"1", "2", "/", "3">>, expected |-> IntVal(4)],
     [expr |-> <<"2", "+", "2", "*", "2">>, expected |-> IntVal(6)],
     [expr |-> <<"(", "2", "+", "2", ")", "*", "2">>, expected |-> IntVal(8)] >>

\* One case of the table run: the value or the message as actual.
caseOutcome(c, r) ==
  [expr |-> c.expr, expected |-> c.expected, actual |-> r,
   pass |-> r.kind = "value" /\ approxEqual(r.value, c.expected)]

caseResult(c) == caseOutcome(c, evaluateExpression(c.expr))

results == [i \in 1..Len(cases) |-> caseResult(cases[i])]

\* The values of the keypad's buttons that have one.
ButtonValues ==
  {"(", ")", "7", "8", "9", "/", "4", "5", "6", "*", "1", "2", "3", "-", "0", ".", "+"}

\* expr as the render that installed the keydown handler saw it: the effect has
\* no dependencies, so onKey keeps the calculate of the first render.
MountedExpr == <<>>

\* The expressions typed character by character are at most this long.
MaxTyped == 3

\* The characters typed, by button or key.
TypedKeys == {"0", "1", "3", "/", ".", "(", ")"}

\* The keys pressed: the typed characters, the keys onKey handles, and keys it
\* ignores.
PressedKeys == TypedKeys \cup {"Enter", "=", "Backspace", "Escape", "a", "Shift"}

\* Past MaxTyped characters the expression grows only as a run of PadKey, up to
\* the limit; at the limit every character is typed again.
PadKey == ")"

Typable(c) ==
  \/ Len(expr) < MaxTyped
  \/ Len(expr) >= ExprLimit
  \/ c = PadKey /\ \A i \in 1..Len(expr) : expr[i] = PadKey

Did(op) == [op |-> op, arg |-> <<>>, held |-> <<>>]

\* testResults = null is the empty sequence.
append(s) ==
  /\ error' = ""
  /\ testResults' = <<>>
  /\ expr' = appended(expr, s)
  /\ last' = [op |-> "append", arg |-> s, held |-> expr]
  /\ UNCHANGED <<lastResult, evVars>>

clearAll ==
  /\ error' = ""
  /\ testResults' = <<>>
  /\ expr' = <<>>
  /\ lastResult' = <<>>
  /\ last' = Did("clearAll")
  /\ UNCHANGED evVars

backspace ==
  /\ error' = ""
  /\ expr' = withoutLast(expr)
  /\ last' = Did("backspace")
  /\ UNCHANGED <<lastResult, testResults, evVars>>

\* The try and catch of calculate whose catch does not clear lastResult.
settledKeepsResult(e, r) ==
  /\ IF r.kind = "value"
       THEN /\ lastResult' = formatted(r.value)
            /\ expr' = <<>>
            /\ error' = ""
       ELSE /\ error' = r.message
            /\ UNCHANGED <<expr, lastResult>>
  /\ last' = [op |-> "calculate", arg |-> e, held |-> expr]
  /\ UNCHANGED <<testResults, evVars>>

\* The try and catch of calculate, r being what evaluateExpression(e) gave.
settled(e, r) ==
  /\ IF r.kind = "value"
       THEN /\ lastResult' = formatted(r.value)
            /\ expr' = <<>>
            /\ error' = ""
       ELSE /\ error' = r.message
            /\ lastResult' = <<>>
            /\ UNCHANGED expr
  /\ last' = [op |-> "calculate", arg |-> e, held |-> expr]
  /\ UNCHANGED <<testResults, evVars>>

\* calculate with that catch.
calculateKeepsResult(e) == settledKeepsResult(e, evaluateExpression(e))

\* calculate as the closure that holds e for expr.
calculate(e) == settled(e, evaluateExpression(e))

runSelfCheck ==
  /\ testResults' = results
  /\ error' = IF \A i \in 1..Len(testResults') : testResults'[i].pass
                THEN "" ELSE "Self-check failed"
  /\ last' = Did("runSelfCheck")
  /\ UNCHANGED <<expr, lastResult, evVars>>

\* The keydown handler.
onKey(k) ==
  IF k \in Digits THEN append(<<k>>)
  ELSE IF k \in {"+", "-", "*", "/", ".", "(", ")"} THEN append(<<k>>)
  ELSE IF k \in {"Enter", "="} THEN calculate(MountedExpr)
  ELSE IF k = "Backspace" THEN backspace
  ELSE IF k = "Escape" THEN clearAll
  ELSE UNCHANGED vars

ClickValue == \E b \in TypedKeys \cap ButtonValues : Typable(b) /\ append(<<b>>)

ClickClear == clearAll

ClickBackspace == backspace

ClickEquals == calculate(expr)

ClickSelfCheck == runSelfCheck

KeyDown ==
  \E k \in PressedKeys : (k \in TypedKeys => Typable(k)) /\ onKey(k)

Init ==
  /\ InitUI
  /\ input = <<>>
  /\ outcome = Pending

Next ==
  \/ ClickValue
  \/ ClickClear
  \/ ClickBackspace
  \/ ClickEquals
  \/ ClickSelfCheck
  \/ KeyDown

Spec == Init /\ [][Next]_vars

(***************************************************************************)
(* The arithmetic grammar the claims measure the evaluator against, with   *)
(* white space between tokens, and its value over the rationals.           *)
(***************************************************************************)
\*   expr   ::=  [ "+" | "-" ]  term  { ( "+" | "-" ) term }
\*   term   ::=  factor  { ( "*" | "/" ) factor }
\*   factor ::=  number  |  "(" expr ")"
\*   number ::=  digits [ "." [ digits ] ]  |  "." digits
RECURSIVE RefSkip(_, _)
RefSkip(s, i) == IF At(s, i) \in WhiteSpace THEN RefSkip(s, i + 1) ELSE i

Abs(n) == IF n < 0 THEN -n ELSE n

\* num / den in lowest terms, den > 0; def is FALSE once a division by zero occurred.
RefFail == [ok |-> FALSE, pos |-> 0, def |-> FALSE, num |-> 0, den |-> 1]

RefOk(p, def, num, den) ==
  IF ~def \/ den = 0 THEN [ok |-> TRUE, pos |-> p, def |-> FALSE, num |-> 0, den |-> 1]
  ELSE LET g  == GCD(Abs(num), Abs(den))
           sn == IF den < 0 THEN -1 ELSE 1
       IN  [ok |-> TRUE, pos |-> p, def |-> TRUE,
            num |-> sn * (num \div g), den |-> sn * (den \div g)]

RefNumber(s, i) ==
  LET intEnd  == DigitsEnd(s, i)
      hasDot  == At(s, intEnd) = "."
      fracEnd == IF hasDot THEN DigitsEnd(s, intEnd + 1) ELSE intEnd
      fracLen == IF hasDot THEN fracEnd - (intEnd + 1) ELSE 0
  IN  IF intEnd = i /\ fracLen = 0 THEN RefFail
      ELSE RefOk(fracEnd, TRUE,
                 DigitsValue(s, i, intEnd) * Pow10(fracLen)
                   + DigitsValue(s, intEnd + 1, fracEnd),
                 Pow10(fracLen))

\* The productions call one another through RefParse, as above.
RECURSIVE RefParse(_, _, _)


RefFactor(s, i) ==
  LET j == RefSkip(s, i)
      c == At(s, j)
  IN  IF c \in Digits \cup {"."} THEN RefNumber(s, j)
      ELSE IF c = "(" THEN
        LET e == RefParse("RefExpr", s, j + 1)
            k == RefSkip(s, e.pos)
        IN  IF e.ok /\ At(s, k) = ")" THEN [e EXCEPT !.pos = k + 1] ELSE RefFail
      ELSE RefFail

RefTermRest(s, l) ==
  LET j == RefSkip(s, l.pos)
      c == At(s, j)
  IN  IF c \notin {"*", "/"} THEN l
      ELSE LET r == RefParse("RefFactor", s, j + 1) IN
           IF ~r.ok THEN RefFail
           ELSE RefParse("RefTermRest", s,
                  IF c = "*"
                    THEN RefOk(r.pos, l.def /\ r.def, l.num * r.num, l.den * r.den)
                    ELSE RefOk(r.pos, l.def /\ r.def, l.num * r.den, l.den * r.num))

RefTerm(s, i) ==
  LET l == RefParse("RefFactor", s, i) IN IF l.ok THEN RefParse("RefTermRest", s, l) ELSE RefFail

RefExprRest(s, l) ==
  LET j == RefSkip(s, l.pos)
      c == At(s, j)
  IN  IF c \notin {"+", "-"} THEN l
      ELSE LET r == RefParse("RefTerm", s, j + 1) IN
           IF ~r.ok THEN RefFail
           ELSE RefParse("RefExprRest", s,
                  RefOk(r.pos, l.def /\ r.def,
                        l.num * r.den + (IF c = "+" THEN 1 ELSE -1) * r.num * l.den,
                        l.den * r.den))

RefExpr(s, i) ==
  LET j    == RefSkip(s, i)
      sign == At(s, j) \in {"+", "-"}
      l    == RefParse("RefTerm", s, IF sign THEN j + 1 ELSE j)
  IN  IF ~l.ok THEN RefFail
      ELSE RefParse("RefExprRest", s, IF At(s, j) = "-" THEN [l EXCEPT !.num = -l.num] ELSE l)

RefParse(nt, s, x) ==
  CASE nt = "RefFactor" -> RefFactor(s, x)
    [] nt = "RefTermRest" -> RefTermRest(s, x)
    [] nt = "RefTerm" -> RefTerm(s, x)
    [] nt = "RefExprRest" -> RefExprRest(s, x)
    [] nt = "RefExpr" -> RefExpr(s, x)

WellFormed(s) ==
  LET r == RefExpr(s, 1) IN r.ok /\ RefSkip(s, r.pos) = Len(s) + 1

\* The value of a well-formed s; def is FALSE when s divides by zero.
MathValue(s) == RefExpr(s, 1)

\* The number v is the rational r.
SameValue(v, r) == v.k = "fin" /\ r.def /\ v.sg * v.n = r.num /\ v.d = r.den

OnlyWhitelisted(s) ==
  \A i \in 1..Len(s) :
    s[i] \in Digits \cup Operators \cup {"(", ")", ".", " ", "\n"}

Evaluated == outcome # Pending

\* raw without the characters outside digits, + - * /, ( ), "." and white space.
Stripped(raw) ==
  SelectSeq(raw, LAMBDA c : c \in {"0", "1", "2", "3", "4", "5", "6", "7", "8", "9",
                                   "+", "-", "*", "/", "(", ")", ".", " ", "\n"})

\* Two adjacent operator characters whose successor is not "(".
OperatorPairNotBeforeParen(s) ==
  \E i \in 1..Len(s) :
    /\ At(s, i) \in Operators
    /\ At(s, i + 1) \in Operators
    /\ At(s, i + 2) # "("

\* s[i..j] is a maximal run of two or more operator characters.
MaximalRun(s, i, j) ==
  /\ i < j
  /\ \A m \in i..j : s[m] \in Operators
  /\ At(s, i - 1) \notin Operators
  /\ At(s, j + 1) \notin Operators

HasMaximalRun(s) == \E i, j \in 1..Len(s) : MaximalRun(s, i, j)

MaximalRunNotBeforeParen(s) ==
  \E i, j \in 1..Len(s) : MaximalRun(s, i, j) /\ At(s, j + 1) # "("

InvalidOperatorSequence == outcome = Failed("Invalid operator sequence")

(***************************************************************************)
(* Claims about evaluateExpression, checked under SpecEval                 *)
(***************************************************************************)

\* C1 as stated: the guard trips exactly when the filtered string holds a run of
\* two or more operator characters that is not immediately followed by "(", so a
\* run of any length >= 2 immediately followed by "(" does not trip it.
C1_TripsOnRunNotBeforeParen ==
  Evaluated =>
    (InvalidOperatorSequence <=> MaximalRunNotBeforeParen(Stripped(input)))

\* C1 amended: evaluation fails with 'Invalid operator sequence' exactly when the
\* filtered string holds two adjacent operator characters whose successor is not
\* "(": a run of three or more always trips the guard, a run of exactly two
\* immediately followed by "(" does not, and a single operator never does; a
\* string that does not trip it goes on to evaluation (or is empty).
C1_TripsOnPairNotBeforeParen ==
  Evaluated =>
    /\ InvalidOperatorSequence <=> OperatorPairNotBeforeParen(Stripped(input))
    /\ ~HasMaximalRun(Stripped(input)) => ~InvalidOperatorSequence
    /\ ~InvalidOperatorSequence =>
         \/ outcome.kind = "value"
         \/ outcome.message \in {"Empty expression", "Invalid expression",
                                 "Computation error"}

\* A run of three operator characters immediately followed by "(" was evaluated
\* and tripped the guard, and a run of two followed by "(" passed it.
C1_Witness ==
  /\ Evaluated
  /\ HasMaximalRun(Stripped(input))
  /\ ~MaximalRunNotBeforeParen(Stripped(input))
  /\ InvalidOperatorSequence

\* C2: a filtered, non-empty string that passes the operator-run guard and is not
\* a well-formed infix expression fails with 'Invalid expression' (and so never
\* returns a number).
C2_IllFormedFailsInvalidExpression ==
  ( /\ Evaluated
    /\ input = Stripped(input)
    /\ trim(input) # <<>>
    /\ ~forbidden(input)
    /\ ~WellFormed(input) )
  => outcome = Failed("Invalid expression")

\* C3: a well-formed expression of whitelisted characters with a defined value
\* (numbers with leading zeros included) returns that value.
C3_WellFormedReturnsValue ==
  ( /\ Evaluated
    /\ OnlyWhitelisted(input)
    /\ WellFormed(input)
    /\ MathValue(input).def )
  => /\ outcome.kind = "value"
     /\ SameValue(outcome.value, MathValue(input))

\* What running the filtered input as a function body gives.
Ran == RunFunction(FunctionBody(Stripped(input)))

Guarded == trim(Stripped(input)) = <<>> \/ forbidden(Stripped(input))

\* C4 as stated: a returned value is finite, and any evaluation in which a
\* divisor evaluates to zero fails with 'Computation error'.
C4_DivisionByZeroFails ==
  Evaluated =>
    /\ outcome.kind = "value" => outcome.value.k \in {"fin", "real"}
    /\ (~Guarded /\ Ran.thrown = "" /\ Ran.divByZero)
         => outcome = Failed("Computation error")

\* C4 amended: every returned value is a finite number; whenever the value of
\* the whole expression is NaN, +infinity or -infinity (as for 5/0 and 0/0) the
\* call fails with 'Computation error'.  A division by zero inside a larger
\* expression whose value is finite does not fail.
C4_ReturnedValueFinite ==
  Evaluated =>
    /\ outcome.kind = "value" => outcome.value.k \in {"fin", "real"}
    /\ (~Guarded /\ Ran.thrown = "" /\ Ran.v.k \in {"nan", "inf"})
         => outcome = Failed("Computation error")
    /\ (~Guarded /\ Ran.thrown = "" /\ Ran.divByZero /\ Ran.v.k \notin {"nan", "inf"})
         => outcome.kind = "value"

\* A division by zero gave a non-finite value and the call failed with
\* 'Computation error'.
C4_Witness ==
  /\ Evaluated
  /\ Ran.thrown = "" /\ Ran.divByZero /\ Ran.v.k \in {"nan", "inf"}
  /\ outcome = Failed("Computation error")

\* C5: evaluateExpression(raw) has the outcome of evaluateExpression on raw with
\* the non-whitelisted characters removed; an input with nothing but white space
\* and non-whitelisted characters fails with 'Empty expression'.
C5_SanitizeFirst ==
  Evaluated =>
    /\ outcome = evaluateExpression(Stripped(input))
    /\ (\A i \in 1..Len(input) :
           input[i] \notin Digits \cup Operators \cup {"(", ")", "."})
         => outcome = Failed("Empty expression")

\* An input with characters to remove was evaluated to a number.
C5_Witness ==
  /\ Evaluated
  /\ input # Stripped(input)
  /\ outcome.kind = "value"

\* C8: the outcome is a number or one of the four failures, nothing else escapes,
\* and the first failing check decides the kind: emptiness, then the operator
\* run, then the evaluation, then finiteness.
C8_TotalAndOrdered ==
  Evaluated =>
    LET s == Stripped(input) IN
    /\ \/ outcome.kind = "value" /\ outcome.message = ""
       \/ /\ outcome.kind = "error"
          /\ outcome.message \in {"Empty expression", "Invalid operator sequence",
                                  "Invalid expression", "Computation error"}
    /\ (\A i \in 1..Len(s) : s[i] \in {" ", "\n"})
         => outcome = Failed("Empty expression")
    /\ ((\E i \in 1..Len(s) : s[i] \notin {" ", "\n"}) /\ OperatorPairNotBeforeParen(s))
         => outcome = Failed("Invalid operator sequence")
    /\ ( /\ \E i \in 1..Len(s) : s[i] \notin {" ", "\n"}
         /\ ~OperatorPairNotBeforeParen(s)
         /\ Ran.thrown # "" )
         => outcome = Failed("Invalid expression")
    /\ outcome = Failed("Computation error") => Ran.thrown = ""

\* An input that fails two checks (the operator run and the parse) was evaluated
\* and reported the earlier one; another threw when run and was caught.
C8_Witness ==
  /\ Evaluated
  /\ InvalidOperatorSequence
  /\ Ran.thrown = "SyntaxError"

(***************************************************************************)
(* Claims about the component, checked under Spec                          *)
(***************************************************************************)
SelfCheckTable ==
  << <<"1", "+", "2">>, <<"5", "-", "2">>, <<"3", "*", "4">>, <<"1", "2", "/", "3">>,
     <<"2", "+", "2", "*", "2">>, <<"(", "2", "+", "2", ")", "*", "2">> >>

SelfCheckExpected == <<3, 3, 12, 4, 6, 8>>

\* C6: runSelfCheck stores six outcomes in table order, each passing with actual
\* equal to expected (3, 3, 12, 4, 6, 8), and sets the error to empty.
C6_SelfCheckAllPass ==
  last.op = "runSelfCheck" =>
    /\ Len(testResults) = 6
    /\ \A i \in 1..6 :
         /\ testResults[i].expr = SelfCheckTable[i]
         /\ testResults[i].pass
         /\ testResults[i].actual.kind = "value"
         /\ testResults[i].actual.value = [k |-> "fin", sg |-> 1,
                                           n |-> SelfCheckExpected[i], d |-> 1]
         /\ testResults[i].expected = testResults[i].actual.value
    /\ error = ""

\* The self-check ran while an expression was being typed.
C6_Witness == last.op = "runSelfCheck" /\ testResults # <<>> /\ expr # <<>>

\* C7: a submit, by the "=" button or by the Enter or "=" key, evaluates the
\* expression held at that moment.
C7_SubmitEvaluatesCurrent == last.op = "calculate" => last.arg = last.held

\* C9: a calculate whose evaluation fails sets the error to the message, empties
\* lastResult (the display no longer shows it) and leaves the expression and the
\* self-check outcomes; one that succeeds sets lastResult to the formatted value
\* and empties the expression and the error.
C9_CalculateEffects ==
  [][ last'.op = "calculate" =>
        LET r == evaluateExpression(last'.arg) IN
        /\ r.kind = "error" =>
             /\ error' = r.message /\ error' # ""
             /\ lastResult' = <<>>
             /\ display' = (IF expr = <<>> THEN <<"0">> ELSE expr)
             /\ expr' = expr
             /\ testResults' = testResults
        /\ r.kind = "value" =>
             /\ lastResult' = formatted(r.value) /\ lastResult' # <<>>
             /\ expr' = <<>>
             /\ error' = "" ]_vars

\* A calculate failed with self-check outcomes stored, and they and the
\* expression are still there.
C9_Witness ==
  /\ last.op = "calculate"
  /\ error = "Computation error"
  /\ lastResult = <<>>
  /\ expr # <<>>
  /\ testResults # <<>>

\* C10: the expression is at most 64 characters of 0-9 + - * / ( ) and "."; an
\* append at length 64 leaves it unchanged and still clears the error and the
\* self-check outcomes.
C10_ExprBounded ==
  /\ Len(expr) <= 64
  /\ \A i \in 1..Len(expr) :
       expr[i] \in {"0", "1", "2", "3", "4", "5", "6", "7", "8", "9",
                    "+", "-", "*", "/", "(", ")", "."}
  /\ (last.op = "append" /\ Len(last.held) = 64) =>
       /\ expr = last.held
       /\ error = ""
       /\ testResults = <<>>

\* An append ran at length 64.
C10_Witness == last.op = "append" /\ Len(last.held) = 64 /\ Len(expr) = 64

====
